---- MODULE Spec2Model ----
(***************************************************************************)
(* Sherpa VS Code extension: the workspace-to-project resolution pipeline. *)
(*                                                                         *)
(*   workspace.ts   matchProject, extractRepoName (pure functions),        *)
(*                  detectWorkspace                                        *)
(*   extension.ts   autoDetectAndFilter, the filterByProject command       *)
(*   ticketProvider.ts  TicketProvider._projectFilter (the active filter)  *)
(*   ticketPanel.ts showTicketPanel, loadAndRender (the detail panel)      *)
(*   createTicketPanel.ts  showCreateTicketPanel                           *)
(*                                                                         *)
(* A JavaScript string is a sequence of one-character strings.  An         *)
(* optional value (T | undefined) is a sequence of length at most one:     *)
(* <<>> is undefined and <<v>> is the value v.                             *)
(***************************************************************************)
EXTENDS Integers, Sequences, FiniteSets, TLC

VARIABLES
    \* ---- matchProject, called as a pure function ----
    mRepoName,      \* argument repoName
    mProjects,      \* argument projects
    mPc,            \* "call" before the call, "returned" after it
    mResult,        \* the returned Project | undefined
    \* ---- extractRepoName, called as a pure function ----
    uUrl,           \* argument url
    uShape,         \* how url was put together: "ssh", "https", "bare", "slash"
    uLast,          \* the text after the last "/" of url ("slash": before it)
    uPc,            \* "call" before the call, "returned" after it
    uResult,        \* the returned string
    \* ---- workspace.ts: one call of detectWorkspace ----
    dPc,            \* "call" before the call, the await it is suspended at
                    \* ("activate", "wait"), "returned" after it
    dFolderName,    \* vscode.workspace.workspaceFolders?.[0]?.name
    dGitExt,        \* the vscode.git extension: "absent", "inactive", "active"
    dRepositories,  \* git.repositories
    dListener,      \* the onDidOpenRepository subscription is live
    dTimer,         \* the 3000 ms timer: "unset", "armed", "fired"
    dResult,        \* the returned WorkspaceInfo
    \* ---- extension.ts / ticketProvider.ts: the resolution pipeline ----
    projectFilter,  \* TicketProvider._projectFilter: the active filter
    treeChanges,    \* how often _onDidChangeTreeData has fired
    cachedProjects, \* activate's cachedProjects
    rPc,            \* per autoDetectAndFilter run: the await it is suspended at,
                    \* "idle" before it starts, "resolved" / "rejected" after it
    rRepoName,      \* per run: ws.repoName
    rProjectNames,  \* per run: projectNames, the candidates passed to the AI call
    lastWrite,      \* who called setProjectFilter last, and with what
    prevWrite,      \* who made the setProjectFilter call before that one
    logLine,        \* the line of the output channel with which the run that
                    \* ended last ended (the lines of runs in flight are left out)
    cPc,            \* per filterByProject invocation: the await it is suspended at
    cItems,         \* per filterByProject invocation: the labels of its items
    folderEvents,   \* how often onDidChangeWorkspaceFolders has fired
    \* ---- extension.ts / ticketProvider.ts: the other commands, the tree view ----
    refreshAllHeld, \* a ticket panel holds the refreshAll callback
    sPc,            \* updateTicketStatus: the await it is suspended at
    gPc,            \* getChildren: the await it is suspended at
    gFilter,        \* the filter getChildren passed to the ticket fetch last
    \* ---- ticketPanel.ts: the ticket detail panel ----
    tPanel,         \* currentPanel: 0 for undefined, else the panel
    tDisposed,      \* the panels that were closed
    tCurrentTaskId, \* currentTaskId
    tMessageDisposable, \* messageDisposable: 0 for undefined, else the listener
    tHtml,          \* per panel: panel.webview.html
    tListeners,     \* the onDidReceiveMessage listeners that are not disposed
    tLoads,         \* per showTicketPanel call: its loadAndRender call
    tSavePc,        \* per listener: the await its save handler is suspended at
    tSaveCalls,     \* how many updateTicket calls the last save message caused
    \* ---- createTicketPanel.ts: one call of showCreateTicketPanel ----
    kPc,            \* the await it is suspended at, "opened" once the panel is shown
    kMembers,       \* members
    kProjects,      \* projects
    kSprints,       \* sprints
    kRepoName,      \* ws.repoName
    kMatched,       \* matchedProject
    kAiMatch,       \* aiMatch
    kFailed         \* the calls that failed

matchVars == <<mRepoName, mProjects, mPc, mResult>>

urlVars == <<uUrl, uShape, uLast, uPc, uResult>>

detectVars == <<dPc, dFolderName, dGitExt, dRepositories, dListener, dTimer, dResult>>

filterVars == <<projectFilter, treeChanges, lastWrite, prevWrite>>

runVars == <<rPc, rRepoName, rProjectNames>>

cmdVars == <<cPc, cItems>>

viewVars == <<refreshAllHeld, sPc, gPc, gFilter>>

panelVars ==
    <<tPanel, tDisposed, tCurrentTaskId, tMessageDisposable, tHtml, tListeners,
      tLoads, tSavePc, tSaveCalls>>

createVars == <<kPc, kMembers, kProjects, kSprints, kRepoName, kMatched, kAiMatch, kFailed>>

appVars == <<filterVars, logLine, cachedProjects, runVars, cmdVars, folderEvents, viewVars>>

pipeVars == <<appVars, panelVars, createVars>>

pureVars == <<matchVars, urlVars, detectVars, panelVars, createVars>>

vars == <<matchVars, urlVars, detectVars, pipeVars>>

-----------------------------------------------------------------------------
(* Bounds of the model *)

\* most characters in the arguments of one matchProject call (repoName and
\* all project names together)
MaxChars == 5
\* longest project list drawn as an argument of matchProject
MaxProjects == 2
\* most autoDetectAndFilter runs started (activation and folder changes)
MaxRuns == 2
\* most invocations of the filterByProject command
MaxCmds == 1
\* longest final path segment of a url drawn as an argument of extractRepoName,
\* before an optional ".git" is appended
MaxSegLen == 4
\* most repositories the git extension has open
MaxRepos == 2
\* most showTicketPanel calls
MaxShows == 2
\* the refresh commands and callbacks fire the tree-data change event while it
\* has fired fewer times than this
MaxTreeChanges == 2

-----------------------------------------------------------------------------
(* Strings *)

\* the characters names are made of: a letter in both cases and a second letter
NameChars == {"a", "A", "b"}

Undefined == <<>>

Some(v) == <<v>>

StringsOver(chars, n) == UNION {[1..k -> chars] : k \in 0..n}

\* String.prototype.toLowerCase, character by character
LowerChar(c) == IF c = "A" THEN "a" ELSE c

toLowerCase(s) == [i \in 1..Len(s) |-> LowerChar(s[i])]

\* String.prototype.startsWith
startsWith(s, p) == Len(p) <= Len(s) /\ SubSeq(s, 1, Len(p)) = p

\* String.prototype.includes
includes(s, p) ==
    \E i \in 0..(Len(s) - Len(p)) : SubSeq(s, i + 1, i + Len(p)) = p

\* the variables of a pure function while it is not the one called
MatchIdle ==
    /\ mRepoName = <<>>
    /\ mProjects = <<>>
    /\ mPc = "idle"
    /\ mResult = Undefined

UrlIdle ==
    /\ uUrl = <<>>
    /\ uShape = "none"
    /\ uLast = <<>>
    /\ uPc = "idle"
    /\ uResult = <<>>

\* showTicketPanel calls, and the panels and listeners they create
Shows == 1..MaxShows

\* the ticket detail panel before showTicketPanel is called
PanelIdle ==
    /\ tPanel = 0
    /\ tDisposed = {}
    /\ tCurrentTaskId = Undefined
    /\ tMessageDisposable = 0
    /\ tHtml = [p \in Shows |-> [kind |-> "blank", taskId |-> ""]]
    /\ tListeners = {}
    /\ tLoads = [k \in Shows |-> [pc |-> "idle", panel |-> 0, taskId |-> ""]]
    /\ tSavePc = [l \in Shows |-> "idle"]
    /\ tSaveCalls = 0

\* the variables of showCreateTicketPanel while it is not called
CreateIdle ==
    /\ kPc = "idle"
    /\ kMembers = <<>>
    /\ kProjects = <<>>
    /\ kSprints = <<>>
    /\ kRepoName = Undefined
    /\ kMatched = Undefined
    /\ kAiMatch = Undefined
    /\ kFailed = {}

\* the variables of detectWorkspace while it is not the one called
DetectIdle ==
    /\ dPc = "idle"
    /\ dFolderName = Undefined
    /\ dGitExt = "absent"
    /\ dRepositories = <<>>
    /\ dListener = FALSE
    /\ dTimer = "unset"
    /\ dResult = Undefined

-----------------------------------------------------------------------------
(* workspace.ts: matchProject *)

\* a Project {id, name}; the id is the project's position in the fetched list
Project(i, nm) == [id |-> i, name |-> nm]

ProjectList(nms) == [i \in 1..Len(nms) |-> Project(i, nms[i])]

\* a bug: find hands back a lower-cased copy instead of the list's element
find_LoweredCopy(projects, hits) ==
    IF hits = {} THEN Undefined
    ELSE LET p == projects[CHOOSE i \in hits : \A j \in hits : i <= j]
         IN  Some(Project(p.id, toLowerCase(p.name)))

\* Array.prototype.find: the first element satisfying the predicate (hits are
\* the positions that satisfy it), or undefined
find(projects, hits) ==
    IF hits = {} THEN Undefined
    ELSE Some(projects[CHOOSE i \in hits : \A j \in hits : i <= j])

ExactTest(lower, p) == toLowerCase(p.name) = lower

\* a bug: the project's name is compared without lower-casing it
PrefixTest_NameNotLowered(lower, p) ==
    startsWith(p.name, lower) \/ startsWith(lower, p.name)

PrefixTest(lower, p) ==
    LET pLower == toLowerCase(p.name)
    IN  startsWith(pLower, lower) \/ startsWith(lower, pLower)

\* a bug: containment is tested in one direction only
SubstringTest_OneWay(lower, p) == includes(toLowerCase(p.name), lower)

SubstringTest(lower, p) ==
    LET pLower == toLowerCase(p.name)
    IN  includes(pLower, lower) \/ includes(lower, pLower)

Positions(projects) == 1..Len(projects)

\* a bug: the prefix tier is tried before the exact tier
matchProject_PrefixBeforeExact(repoName, projects) ==
    IF repoName = <<>> \/ Len(projects) = 0 THEN Undefined
    ELSE
        LET lower == toLowerCase(repoName)
            exact == find(projects, {i \in Positions(projects) : ExactTest(lower, projects[i])})
            prefix == find(projects, {i \in Positions(projects) : PrefixTest(lower, projects[i])})
            substring == find(projects, {i \in Positions(projects) : SubstringTest(lower, projects[i])})
        IN  IF prefix # Undefined THEN prefix
            ELSE IF exact # Undefined THEN exact
            ELSE substring

\* a bug: the prefix tier is missing
matchProject_NoPrefixTier(repoName, projects) ==
    IF repoName = <<>> \/ Len(projects) = 0 THEN Undefined
    ELSE
        LET lower == toLowerCase(repoName)
            exact == find(projects, {i \in Positions(projects) : ExactTest(lower, projects[i])})
            substring == find(projects, {i \in Positions(projects) : SubstringTest(lower, projects[i])})
        IN  IF exact # Undefined THEN exact
            ELSE substring

\* a bug: the guard on empty arguments is missing
matchProject_NoGuard(repoName, projects) ==
    LET lower == toLowerCase(repoName)
        exact == find(projects, {i \in Positions(projects) : ExactTest(lower, projects[i])})
        prefix == find(projects, {i \in Positions(projects) : PrefixTest(lower, projects[i])})
        substring == find(projects, {i \in Positions(projects) : SubstringTest(lower, projects[i])})
    IN  IF exact # Undefined THEN exact
        ELSE IF prefix # Undefined THEN prefix
        ELSE substring

matchProject(repoName, projects) ==
    IF repoName = <<>> \/ Len(projects) = 0 THEN Undefined
    ELSE
        LET lower == toLowerCase(repoName)
            exact == find(projects, {i \in Positions(projects) : ExactTest(lower, projects[i])})
            prefix == find(projects, {i \in Positions(projects) : PrefixTest(lower, projects[i])})
            substring == find(projects, {i \in Positions(projects) : SubstringTest(lower, projects[i])})
        IN  IF exact # Undefined THEN exact
            ELSE IF prefix # Undefined THEN prefix
            ELSE substring

-----------------------------------------------------------------------------
(* extension.ts: activate, autoDetectAndFilter, sherpa.filterByProject;     *)
(* ticketProvider.ts: TicketProvider                                        *)

Runs == 1..MaxRuns

Cmds == 1..MaxCmds

\* JavaScript truthiness of a string | undefined
Truthy(s) == s # Undefined /\ s[1] # <<>>

\* what detectWorkspace resolves ws.repoName to
WsRepoNames == {Undefined, Some(<<"a">>), Some(<<"c">>)}

\* the text the filterByProject handler looks for in the picked label (kept
\* whole, as one element of a string)
ShowAllText == <<"Show All">>

\* a project name that holds that text
ShowAllsName == ShowAllText \o <<"s">>

\* what fetchProjects resolves to
FetchedProjectLists == {<<>>, ProjectList(<< <<"b">>, <<"A">>, ShowAllsName >>)}

\* a name that no fetched project has
PhantomName == <<"z">>

\* projects.map((p) => p.name)
mapName(projects) == [i \in 1..Len(projects) |-> projects[i].name]

Range(seq) == {seq[i] : i \in 1..Len(seq)}

\* what fetchAIProjectMatch resolves to: no match, one of the candidates, or a
\* name that is not among them
AiAnswers(projectNames) ==
    {Undefined, Some(<<>>), Some(PhantomName)} \cup {Some(nm) : nm \in Range(projectNames)}

\* a line of the output channel: which of the appendLine calls wrote it
LogLine(kind) == [kind |-> kind]

\* TicketProvider.setProjectFilter
setProjectFilter(project) ==
    /\ projectFilter' = project
    /\ treeChanges' = treeChanges + 1

\* a setProjectFilter call: made by run id ("run") or by invocation id of
\* the filterByProject command ("cmd")
Writer(by, id) == [by |-> by, id |-> id]

Write(by, id, project) == [by |-> by, id |-> id, value |-> project]

\* a guard the code does not have: only the run started last may set the filter
RunSetsFilter_LatestOnly(r, project) ==
    IF \A r2 \in Runs : r2 > r => rPc[r2] = "idle"
    THEN /\ setProjectFilter(project)
         /\ lastWrite' = Write("run", r, project)
         /\ prevWrite' = Writer(lastWrite.by, lastWrite.id)
    ELSE UNCHANGED filterVars

\* a guard the code does not have: a run leaves a filter the user set last
RunSetsFilter_YieldsToUser(r, project) ==
    IF lastWrite.by = "cmd"
    THEN UNCHANGED filterVars
    ELSE /\ setProjectFilter(project)
         /\ lastWrite' = Write("run", r, project)
         /\ prevWrite' = Writer(lastWrite.by, lastWrite.id)

\* myProvider.setProjectFilter(...) called by run r
RunSetsFilter(r, project) ==
    /\ setProjectFilter(project)
    /\ lastWrite' = Write("run", r, project)
    /\ prevWrite' = Writer(lastWrite.by, lastWrite.id)

\* run r returns: its locals go out of scope
RunResolves(r, line) ==
    /\ rPc' = [rPc EXCEPT ![r] = "resolved"]
    /\ logLine' = line
    /\ rRepoName' = [rRepoName EXCEPT ![r] = Undefined]
    /\ rProjectNames' = [rProjectNames EXCEPT ![r] = <<>>]

\* a bug: the catch block resets the active filter
Catch_ClearsFilter(r) ==
    /\ RunResolves(r, LogLine("error"))
    /\ RunSetsFilter(r, Undefined)
    /\ UNCHANGED <<cachedProjects, cmdVars>>

\* the catch block of autoDetectAndFilter
Catch(r) ==
    /\ RunResolves(r, LogLine("error"))
    /\ UNCHANGED <<filterVars, cachedProjects, cmdVars>>

\* autoDetectAndFilter() is called: it runs up to its first await
StartRun(r) ==
    /\ rPc' = [rPc EXCEPT ![r] = "detectWorkspace"]
    /\ UNCHANGED <<logLine, rRepoName, rProjectNames>>

\* the other commands and the tree view at rest
ViewIdle ==
    /\ refreshAllHeld = FALSE
    /\ sPc = "idle"
    /\ gPc = "idle"
    /\ gFilter = Undefined

\* the state when activate returns: the first run is in flight
PipeInit ==
    /\ projectFilter = Undefined
    /\ treeChanges = 0
    /\ lastWrite = Write("none", 0, Undefined)
    /\ prevWrite = Writer("none", 0)
    /\ cachedProjects = <<>>
    /\ rPc = [r \in Runs |-> IF r = 1 THEN "detectWorkspace" ELSE "idle"]
    /\ rRepoName = [r \in Runs |-> Undefined]
    /\ rProjectNames = [r \in Runs |-> <<>>]
    /\ logLine = LogLine("none")
    /\ cPc = [c \in Cmds |-> "idle"]
    /\ cItems = [c \in Cmds |-> <<>>]
    /\ folderEvents = 0
    /\ ViewIdle
    /\ PanelIdle
    /\ CreateIdle

\* the pipeline, the commands and the tree view before activate is called
AppIdle ==
    /\ projectFilter = Undefined
    /\ treeChanges = 0
    /\ lastWrite = Write("none", 0, Undefined)
    /\ prevWrite = Writer("none", 0)
    /\ cachedProjects = <<>>
    /\ rPc = [r \in Runs |-> "idle"]
    /\ rRepoName = [r \in Runs |-> Undefined]
    /\ rProjectNames = [r \in Runs |-> <<>>]
    /\ logLine = LogLine("none")
    /\ cPc = [c \in Cmds |-> "idle"]
    /\ cItems = [c \in Cmds |-> <<>>]
    /\ folderEvents = 0
    /\ ViewIdle

\* the state of the extension while a pure function is the one called
PipeIdle == AppIdle /\ PanelIdle /\ CreateIdle

\* a guard the code does not have: a folder change starts a run only when no
\* run is in flight
OnDidChangeWorkspaceFolders_OnlyWhenIdle ==
    \E r \in Runs :
        /\ rPc[r] = "idle"
        /\ \A r2 \in Runs : r2 < r => rPc[r2] # "idle"
        /\ IF \A r2 \in Runs : rPc[r2] \in {"idle", "resolved"}
           THEN StartRun(r)
           ELSE UNCHANGED <<runVars, logLine>>
        /\ folderEvents' = folderEvents + 1
        /\ UNCHANGED <<filterVars, cachedProjects, cmdVars>>
        /\ UNCHANGED <<pureVars, viewVars>>

\* vscode.workspace.onDidChangeWorkspaceFolders fires: the next run starts
OnDidChangeWorkspaceFolders ==
    \E r \in Runs :
        /\ rPc[r] = "idle"
        /\ \A r2 \in Runs : r2 < r => rPc[r2] # "idle"
        /\ StartRun(r)
        /\ folderEvents' = folderEvents + 1
        /\ UNCHANGED <<filterVars, cachedProjects, cmdVars>>
        /\ UNCHANGED <<pureVars, viewVars>>

\* await detectWorkspace() resolves; fetchProjects() is called
DetectWorkspaceResolves(r) ==
    /\ rPc[r] = "detectWorkspace"
    /\ \E repoName \in WsRepoNames :
        rRepoName' = [rRepoName EXCEPT ![r] = repoName]
    /\ rPc' = [rPc EXCEPT ![r] = "fetchProjects"]
    /\ UNCHANGED <<filterVars, logLine, cachedProjects, rProjectNames, cmdVars>>
    /\ UNCHANGED <<pureVars, viewVars, folderEvents>>

DetectWorkspaceRejects(r) ==
    /\ rPc[r] = "detectWorkspace"
    /\ Catch(r)
    /\ UNCHANGED <<pureVars, viewVars, folderEvents>>

\* a bug: the AI is asked although the string tiers found a project
FetchProjectsResolves_AsksAiAnyway(r) ==
    /\ rPc[r] = "fetchProjects"
    /\ \E projects \in FetchedProjectLists :
        /\ cachedProjects' = projects
        /\ IF Truthy(rRepoName[r])
           THEN LET matched == matchProject(rRepoName[r][1], projects)
                IN  /\ rProjectNames' = [rProjectNames EXCEPT ![r] = mapName(projects)]
                    /\ rPc' = [rPc EXCEPT ![r] = "fetchAIProjectMatch"]
                    /\ UNCHANGED <<logLine, rRepoName>>
                    /\ IF matched # Undefined
                       THEN RunSetsFilter(r, Some(matched[1].name))
                       ELSE UNCHANGED filterVars
           ELSE /\ RunResolves(r, LogLine("fetched"))
                /\ UNCHANGED filterVars
    /\ UNCHANGED cmdVars
    /\ UNCHANGED <<pureVars, viewVars, folderEvents>>

\* await fetchProjects() resolves: the string tiers run, and either the run
\* ends or fetchAIProjectMatch is called
FetchProjectsResolves(r) ==
    /\ rPc[r] = "fetchProjects"
    /\ \E projects \in FetchedProjectLists :
        /\ cachedProjects' = projects
        /\ IF Truthy(rRepoName[r])
           THEN LET matched == matchProject(rRepoName[r][1], projects)
                IN  IF matched # Undefined
                    THEN /\ RunResolves(r, LogLine("matched"))
                         /\ RunSetsFilter(r, Some(matched[1].name))
                    ELSE /\ rProjectNames' = [rProjectNames EXCEPT ![r] = mapName(projects)]
                         /\ rPc' = [rPc EXCEPT ![r] = "fetchAIProjectMatch"]
                         /\ UNCHANGED <<filterVars, logLine, rRepoName>>
           ELSE /\ RunResolves(r, LogLine("fetched"))
                /\ UNCHANGED filterVars
    /\ UNCHANGED cmdVars
    /\ UNCHANGED <<pureVars, viewVars, folderEvents>>

FetchProjectsRejects(r) ==
    /\ rPc[r] = "fetchProjects"
    /\ Catch(r)
    /\ UNCHANGED <<pureVars, viewVars, folderEvents>>

\* await fetchAIProjectMatch(...) resolves
FetchAIProjectMatchResolves(r) ==
    /\ rPc[r] = "fetchAIProjectMatch"
    /\ \E aiMatch \in AiAnswers(rProjectNames[r]) :
        IF Truthy(aiMatch)
        THEN /\ RunResolves(r, LogLine("aiMatch"))
             /\ RunSetsFilter(r, aiMatch)
        ELSE /\ RunResolves(r, LogLine("noMatch"))
             /\ UNCHANGED filterVars
    /\ UNCHANGED <<cachedProjects, cmdVars>>
    /\ UNCHANGED <<pureVars, viewVars, folderEvents>>

FetchAIProjectMatchRejects(r) ==
    /\ rPc[r] = "fetchAIProjectMatch"
    /\ Catch(r)
    /\ UNCHANGED <<pureVars, viewVars, folderEvents>>

\* the label of the first quick-pick item
ShowAllLabel == <<"$(clear-all) ">> \o ShowAllText

\* the labels of the quick-pick items
ItemLabels(projects) == <<ShowAllLabel>> \o mapName(projects)

\* myProvider.setProjectFilter(...) called by invocation c of the command
CmdSetsFilter(c, project) ==
    /\ setProjectFilter(project)
    /\ lastWrite' = Write("cmd", c, project)
    /\ prevWrite' = Writer(lastWrite.by, lastWrite.id)

\* sherpa.filterByProject is invoked: it runs up to its first await
InvokeFilterByProject(c) ==
    /\ cPc[c] = "idle"
    /\ \A c2 \in Cmds : c2 < c => cPc[c2] # "idle"
    /\ IF Len(cachedProjects) = 0
       THEN /\ cPc' = [cPc EXCEPT ![c] = "fetchProjects"]
            /\ UNCHANGED cItems
       ELSE /\ cPc' = [cPc EXCEPT ![c] = "showQuickPick"]
            /\ cItems' = [cItems EXCEPT ![c] = ItemLabels(cachedProjects)]
    /\ UNCHANGED <<filterVars, logLine, cachedProjects, runVars>>
    /\ UNCHANGED <<pureVars, viewVars, folderEvents>>

\* the command's await fetchProjects() resolves; the quick pick is shown
CmdFetchProjectsResolves(c) ==
    /\ cPc[c] = "fetchProjects"
    /\ \E projects \in FetchedProjectLists :
        /\ cachedProjects' = projects
        /\ cItems' = [cItems EXCEPT ![c] = ItemLabels(projects)]
    /\ cPc' = [cPc EXCEPT ![c] = "showQuickPick"]
    /\ UNCHANGED <<filterVars, logLine, runVars>>
    /\ UNCHANGED <<pureVars, viewVars, folderEvents>>

\* the command's await fetchProjects() rejects: an error message is shown
CmdFetchProjectsRejects(c) ==
    /\ cPc[c] = "fetchProjects"
    /\ cPc' = [cPc EXCEPT ![c] = "done"]
    /\ UNCHANGED <<filterVars, logLine, cachedProjects, runVars, cItems>>
    /\ UNCHANGED <<pureVars, viewVars, folderEvents>>

\* a bug: dismissing the quick pick clears the filter
QuickPickDismissed_ClearsFilter(c) ==
    /\ cPc[c] = "showQuickPick"
    /\ cPc' = [cPc EXCEPT ![c] = "done"]
    /\ cItems' = [cItems EXCEPT ![c] = <<>>]
    /\ CmdSetsFilter(c, Undefined)
    /\ UNCHANGED <<logLine, cachedProjects, runVars>>
    /\ UNCHANGED <<pureVars, viewVars, folderEvents>>

\* the quick pick is dismissed
QuickPickDismissed(c) ==
    /\ cPc[c] = "showQuickPick"
    /\ cPc' = [cPc EXCEPT ![c] = "done"]
    /\ cItems' = [cItems EXCEPT ![c] = <<>>]
    /\ UNCHANGED <<filterVars, logLine, cachedProjects, runVars>>
    /\ UNCHANGED <<pureVars, viewVars, folderEvents>>

\* lines 105-113 with picked the i-th item
PickItem(c, i) ==
    /\ cPc[c] = "showQuickPick"
    /\ i \in 1..Len(cItems[c])
    /\ LET label == cItems[c][i]
       IN  IF includes(label, ShowAllText)
           THEN CmdSetsFilter(c, Undefined)
           ELSE CmdSetsFilter(c, Some(label))
    /\ cPc' = [cPc EXCEPT ![c] = "done"]
    /\ cItems' = [cItems EXCEPT ![c] = <<>>]
    /\ UNCHANGED <<logLine, cachedProjects, runVars>>
    /\ UNCHANGED <<pureVars, viewVars, folderEvents>>

\* the user picks an item
QuickPickPicked(c) == \E i \in 1..Len(cItems[c]) : PickItem(c, i)

Next ==
    \/ OnDidChangeWorkspaceFolders
    \/ \E r \in Runs :
        \/ DetectWorkspaceResolves(r)
        \/ DetectWorkspaceRejects(r)
        \/ FetchProjectsResolves(r)
        \/ FetchProjectsRejects(r)
        \/ FetchAIProjectMatchResolves(r)
        \/ FetchAIProjectMatchRejects(r)
    \/ \E c \in Cmds :
        \/ InvokeFilterByProject(c)
        \/ CmdFetchProjectsResolves(c)
        \/ CmdFetchProjectsRejects(c)
        \/ QuickPickDismissed(c)
        \/ QuickPickPicked(c)

Init == PipeInit /\ MatchIdle /\ UrlIdle /\ DetectIdle

Spec == Init /\ [][Next]_vars

-----------------------------------------------------------------------------
(* The other commands of activate and the tree view, next to the activation *)
(* run and the filterByProject command                                      *)

\* what the pipeline keeps while another command or the tree view acts
pipeKept == <<logLine, cachedProjects, runVars, cmdVars, folderEvents>>

\* a bug: refreshing resets the active filter
refresh_ClearsFilter ==
    /\ treeChanges < MaxTreeChanges
    /\ treeChanges' = treeChanges + 1
    /\ projectFilter' = Undefined
    /\ UNCHANGED <<lastWrite, prevWrite>>

\* TicketProvider.refresh
refresh ==
    /\ treeChanges < MaxTreeChanges
    /\ treeChanges' = treeChanges + 1
    /\ UNCHANGED <<projectFilter, lastWrite, prevWrite>>

\* refreshAll(): of its two refreshes, myProvider's
refreshAll == refresh

\* sherpa.refreshTickets
RefreshTickets ==
    /\ refresh
    /\ UNCHANGED <<pipeKept, viewVars, pureVars>>

\* sherpa.refreshSprintProgress: the ticket provider is not touched
RefreshSprintProgress == UNCHANGED vars

\* sherpa.openTicket: the ticket panel is handed refreshAll
OpenTicket ==
    /\ refreshAllHeld' = TRUE
    /\ UNCHANGED <<sPc, gPc, gFilter>>
    /\ UNCHANGED <<filterVars, pipeKept, pureVars>>

\* sherpa.createTicket: the create-ticket panel is handed refreshAll
CreateTicket ==
    /\ refreshAllHeld' = TRUE
    /\ UNCHANGED <<sPc, gPc, gFilter>>
    /\ UNCHANGED <<filterVars, pipeKept, pureVars>>

\* a panel calls the callback it was handed (after a save)
PanelCallsOnRefresh ==
    /\ refreshAllHeld
    /\ refreshAll
    /\ UNCHANGED <<pipeKept, viewVars, pureVars>>

\* sherpa.updateTicketStatus is invoked: the status quick pick is shown
InvokeUpdateTicketStatus ==
    /\ sPc = "idle"
    /\ sPc' = "showQuickPick"
    /\ UNCHANGED <<refreshAllHeld, gPc, gFilter>>
    /\ UNCHANGED <<filterVars, pipeKept, pureVars>>

\* the status quick pick is dismissed
StatusPickDismissed ==
    /\ sPc = "showQuickPick"
    /\ sPc' = "idle"
    /\ UNCHANGED <<refreshAllHeld, gPc, gFilter>>
    /\ UNCHANGED <<filterVars, pipeKept, pureVars>>

\* a status is picked: updateTicket is called
StatusPicked ==
    /\ sPc = "showQuickPick"
    /\ sPc' = "updateTicket"
    /\ UNCHANGED <<refreshAllHeld, gPc, gFilter>>
    /\ UNCHANGED <<filterVars, pipeKept, pureVars>>

\* await updateTicket(...) resolves: refreshAll()
UpdateTicketResolves ==
    /\ sPc = "updateTicket"
    /\ sPc' = "idle"
    /\ refreshAll
    /\ UNCHANGED <<refreshAllHeld, gPc, gFilter>>
    /\ UNCHANGED <<pipeKept, pureVars>>

\* await updateTicket(...) rejects: an error message is shown
UpdateTicketRejects ==
    /\ sPc = "updateTicket"
    /\ sPc' = "idle"
    /\ UNCHANGED <<refreshAllHeld, gPc, gFilter>>
    /\ UNCHANGED <<filterVars, pipeKept, pureVars>>

\* a bug: the listing is fetched with the filter of the listing before it
GetChildren_StaleFilter ==
    /\ gPc = "idle"
    /\ gPc' = "fetchTickets"
    /\ UNCHANGED <<refreshAllHeld, sPc, gFilter>>
    /\ UNCHANGED <<filterVars, pipeKept, pureVars>>

\* TicketProvider.getChildren is called by the tree view: the ticket fetch is
\* called with this._projectFilter
GetChildren ==
    /\ gPc = "idle"
    /\ gPc' = "fetchTickets"
    /\ gFilter' = projectFilter
    /\ UNCHANGED <<refreshAllHeld, sPc>>
    /\ UNCHANGED <<filterVars, pipeKept, pureVars>>

\* the ticket fetch resolves or rejects: getChildren returns the items or []
FetchTicketsSettles ==
    /\ gPc = "fetchTickets"
    /\ gPc' = "idle"
    /\ UNCHANGED <<refreshAllHeld, sPc, gFilter>>
    /\ UNCHANGED <<filterVars, pipeKept, pureVars>>

ViewNext ==
    \/ \E r \in Runs :
        \/ DetectWorkspaceResolves(r)
        \/ DetectWorkspaceRejects(r)
        \/ FetchProjectsResolves(r)
        \/ FetchProjectsRejects(r)
        \/ FetchAIProjectMatchResolves(r)
        \/ FetchAIProjectMatchRejects(r)
    \/ \E c \in Cmds :
        \/ InvokeFilterByProject(c)
        \/ CmdFetchProjectsResolves(c)
        \/ CmdFetchProjectsRejects(c)
        \/ QuickPickDismissed(c)
        \/ QuickPickPicked(c)
    \/ RefreshTickets
    \/ RefreshSprintProgress
    \/ OpenTicket
    \/ CreateTicket
    \/ PanelCallsOnRefresh
    \/ InvokeUpdateTicketStatus
    \/ StatusPickDismissed
    \/ StatusPicked
    \/ UpdateTicketResolves
    \/ UpdateTicketRejects
    \/ GetChildren
    \/ FetchTicketsSettles

\* every command of activate and the tree view; the workspace folders do not
\* change, so the run started by activate is the only one
SpecView == Init /\ [][ViewNext]_vars

-----------------------------------------------------------------------------
(* matchProject as a pure function: the arguments are drawn, the call returns *)

\* the lists of k names that hold at most budget characters together
RECURSIVE NameLists(_, _)
NameLists(k, budget) ==
    IF k = 0 THEN {<<>>}
    ELSE UNION {{<<nm>> \o rest : rest \in NameLists(k - 1, budget - Len(nm))} :
                    nm \in StringsOver(NameChars, budget)}

MatchInit ==
    /\ UrlIdle
    /\ DetectIdle
    /\ PipeIdle
    /\ \E repoName \in StringsOver(NameChars, MaxChars), k \in 0..MaxProjects :
      \E nms \in NameLists(k, MaxChars - Len(repoName)) :
        /\ mRepoName = repoName
        /\ mProjects = ProjectList(nms)
        /\ mPc = "call"
        /\ mResult = Undefined

CallMatchProject ==
    /\ mPc = "call"
    /\ mResult' = matchProject(mRepoName, mProjects)
    /\ mPc' = "returned"
    /\ UNCHANGED <<mRepoName, mProjects>>
    /\ UNCHANGED <<urlVars, detectVars, pipeVars>>

MatchNext == CallMatchProject

SpecMatch == MatchInit /\ [][MatchNext]_vars

-----------------------------------------------------------------------------
(* workspace.ts: extractRepoName *)

DotGit == <<".", "g", "i", "t">>

endsWith(s, suffix) ==
    Len(suffix) <= Len(s) /\ SubSeq(s, Len(s) - Len(suffix) + 1, Len(s)) = suffix

\* url.replace(/\.git$/, ""): one trailing ".git" is removed
replaceTrailingGit(url) ==
    IF endsWith(url, DotGit) THEN SubSeq(url, 1, Len(url) - Len(DotGit)) ELSE url

\* the character class [^/:]
NotSlashOrColon(c) == c # "/" /\ c # ":"

\* s.split("/").pop(): the text after the last "/", all of s when it has none
splitPop(s) ==
    LET slashes == {i \in 1..Len(s) : s[i] = "/"}
        last == IF slashes = {} THEN 0 ELSE CHOOSE i \in slashes : \A j \in slashes : j <= i
    IN  SubSeq(s, last + 1, Len(s))

\* cleaned.match(/[:\/]([^/:]+\/[^/:]+)$/): the start of capture group 1, or 0
\* for no match.  The group is [^/:]+ "/" [^/:]+ reaching the end of the
\* string, right after a ":" or a "/".
sshMatchGroupStart(cleaned) ==
    LET starts == {i \in 2..Len(cleaned) :
                    /\ cleaned[i - 1] \in {":", "/"}
                    /\ \E j \in (i + 1)..(Len(cleaned) - 1) :
                        /\ cleaned[j] = "/"
                        /\ \A k \in i..(j - 1) : NotSlashOrColon(cleaned[k])
                        /\ \A k \in (j + 1)..Len(cleaned) : NotSlashOrColon(cleaned[k])}
    IN  IF starts = {} THEN 0 ELSE CHOOSE i \in starts : \A j \in starts : i <= j

\* a bug: the captured "org/repo" is returned whole
extractRepoName_WholeGroup(url) ==
    LET cleaned == replaceTrailingGit(url)
        g == sshMatchGroupStart(cleaned)
        lastPart == splitPop(cleaned)
    IN  IF g # 0 THEN SubSeq(cleaned, g, Len(cleaned))
        ELSE IF lastPart # <<>> THEN lastPart ELSE cleaned

extractRepoName(url) ==
    LET cleaned == replaceTrailingGit(url)
        g == sshMatchGroupStart(cleaned)
        lastPart == splitPop(cleaned)
    IN  IF g # 0 THEN splitPop(SubSeq(cleaned, g, Len(cleaned)))
        ELSE IF lastPart # <<>> THEN lastPart ELSE cleaned

-----------------------------------------------------------------------------
(* extractRepoName as a pure function: the url is drawn, the call returns *)

\* the characters of a final path segment: a letter, a dot and the letters of "git"
SegChars == {"r", ".", "g", "i", "t"}

\* hosts of the SSH form (host:org/repo), with and without a user
SshHosts == {<<"h">>, <<"u", "@", "h">>}

\* scheme and host of the HTTPS form (https://host/org/repo), with and without a port
HttpsHosts ==
    {<<"h", "t", "t", "p", "s", ":", "/", "/", "h">>,
     <<"h", "t", "t", "p", "s", ":", "/", "/", "h", ":", "8">>}

Orgs == {<<"o">>, <<"o", ".", "g", "i", "t">>}

\* the urls of one shape ending in the segment last
UrlsOf(shape, last) ==
    CASE shape = "ssh" -> {h \o <<":">> \o o \o <<"/">> \o last : h \in SshHosts, o \in Orgs}
      [] shape = "https" -> {h \o <<"/">> \o o \o <<"/">> \o last : h \in HttpsHosts, o \in Orgs}
      [] shape = "bare" -> {last}
      [] shape = "slash" -> {h \o <<":">> \o o \o <<"/">> \o last \o <<"/">> : h \in SshHosts, o \in Orgs}

UrlInit ==
    /\ MatchIdle
    /\ DetectIdle
    /\ PipeIdle
    /\ \E seg \in StringsOver(SegChars, MaxSegLen), git \in BOOLEAN,
          shape \in {"ssh", "https", "bare", "slash"} :
         LET last == IF git THEN seg \o DotGit ELSE seg
         IN  /\ uShape = shape
             /\ uLast = last
             /\ uUrl \in UrlsOf(shape, last)
    /\ uPc = "call"
    /\ uResult = <<>>

CallExtractRepoName ==
    /\ uPc = "call"
    /\ uResult' = extractRepoName(uUrl)
    /\ uPc' = "returned"
    /\ UNCHANGED <<uUrl, uShape, uLast>>
    /\ UNCHANGED <<matchVars, detectVars, pipeVars>>

UrlNext == CallExtractRepoName

SpecUrl == UrlInit /\ [][UrlNext]_vars

-----------------------------------------------------------------------------
(* detectWorkspace: one call, the git extension and the timer around it *)

\* what workspaceFolders?.[0]?.name can be: no folder open, or a folder's name
FolderNames == {Undefined, Some(<<"f">>)}

\* repo.rootUri.path: the root directory, a directory below it, one two levels
\* down, and a path that ends in "/"
RootPaths == {<<"/">>, <<"/", "r">>, <<"/", "w", "/", "r">>, <<"/", "w", "/">>}

\* repo.state.HEAD: undefined, a detached HEAD (no name), a branch
Heads == {Undefined, Some([name |-> Undefined]), Some([name |-> Some(<<"m">>)])}

\* a Repository of the git API
Repositories == [path : RootPaths, head : Heads]

RepositoryLists == UNION {[1..k -> Repositories] : k \in 0..MaxRepos}

WorkspaceInfo(repoName, branch, folderName) ==
    [repoName |-> repoName, branch |-> branch, folderName |-> folderName]

\* a bug: the fallback leaves repoName undefined
NoRepository_RepoNameUndefined(folderName) ==
    Some(WorkspaceInfo(Undefined, Undefined, folderName))

\* { repoName: folderName, branch: undefined, folderName }
NoRepository(folderName) ==
    Some(WorkspaceInfo(folderName, Undefined, folderName))

\* repo.state.HEAD?.name
headName(repo) == IF repo.head = Undefined THEN Undefined ELSE repo.head[1].name

\* a bug: the whole root path is the repo name
rootName_WholePath(repo, folderName) == Some(repo.path)

\* repo.rootUri.path.split("/").pop() || folderName
rootName(repo, folderName) ==
    LET last == splitPop(repo.path)
    IN  IF last # <<>> THEN Some(last) ELSE folderName

\* lines 49-59: the call returns with what git.repositories holds now
ReturnWorkspace(repositories) ==
    /\ dPc' = "returned"
    /\ IF Len(repositories) = 0
       THEN dResult' = NoRepository(dFolderName)
       ELSE LET repo == repositories[1]
            IN  dResult' = Some(WorkspaceInfo(rootName(repo, dFolderName),
                                              headName(repo), dFolderName))

\* a bug: the promise is awaited without the timer
WaitForRepository_NoTimer ==
    /\ dPc' = "wait"
    /\ dListener' = TRUE
    /\ UNCHANGED <<dTimer, dResult>>

\* lines 36-46: subscribe to onDidOpenRepository, arm the timer, await
WaitForRepository ==
    /\ dPc' = "wait"
    /\ dListener' = TRUE
    /\ dTimer' = "armed"
    /\ UNCHANGED dResult

\* lines 32-59, up to the next await: with the git API at hand
WithGitAPI(repositories) ==
    IF Len(repositories) = 0
    THEN WaitForRepository
    ELSE ReturnWorkspace(repositories) /\ UNCHANGED <<dListener, dTimer>>

DetectInit ==
    /\ MatchIdle
    /\ UrlIdle
    /\ PipeIdle
    /\ dPc = "call"
    /\ dFolderName \in FolderNames
    /\ dGitExt \in {"absent", "inactive", "active"}
    /\ dRepositories \in RepositoryLists
    /\ dGitExt # "active" => dRepositories = <<>>
    /\ dListener = FALSE
    /\ dTimer = "unset"
    /\ dResult = Undefined

\* detectWorkspace() is called: it runs up to its first await, or returns
CallDetectWorkspace ==
    /\ dPc = "call"
    /\ CASE dGitExt = "absent" ->
             /\ dPc' = "returned"
             /\ dResult' = NoRepository(dFolderName)
             /\ UNCHANGED <<dListener, dTimer>>
         [] dGitExt = "inactive" ->
             /\ dPc' = "activate"
             /\ UNCHANGED <<dListener, dTimer, dResult>>
         [] dGitExt = "active" -> WithGitAPI(dRepositories)
    /\ UNCHANGED <<dFolderName, dGitExt, dRepositories>>
    /\ UNCHANGED <<matchVars, urlVars, pipeVars>>

\* await gitExt.activate() resolves: the extension is active and has opened
\* the repositories it found so far
ActivateResolves ==
    /\ dPc = "activate"
    /\ dGitExt' = "active"
    /\ \E repositories \in RepositoryLists :
        /\ dRepositories' = repositories
        /\ WithGitAPI(repositories)
    /\ UNCHANGED dFolderName
    /\ UNCHANGED <<matchVars, urlVars, pipeVars>>

\* await gitExt.activate() rejects
ActivateRejects ==
    /\ dPc = "activate"
    /\ dPc' = "returned"
    /\ dResult' = NoRepository(dFolderName)
    /\ UNCHANGED <<dFolderName, dGitExt, dRepositories, dListener, dTimer>>
    /\ UNCHANGED <<matchVars, urlVars, pipeVars>>

\* the git extension opens a repository and fires onDidOpenRepository: a live
\* subscription is disposed and the awaited promise resolved
RepositoryOpened ==
    /\ dGitExt = "active"
    /\ Len(dRepositories) < MaxRepos
    /\ \E repo \in Repositories :
        /\ dRepositories' = Append(dRepositories, repo)
        /\ IF dListener
           THEN /\ dListener' = FALSE
                /\ ReturnWorkspace(dRepositories')
           ELSE UNCHANGED <<dPc, dListener, dResult>>
    /\ UNCHANGED <<dFolderName, dGitExt, dTimer>>
    /\ UNCHANGED <<matchVars, urlVars, pipeVars>>

\* the timer fires: the subscription is disposed and the promise resolved; a
\* promise that is resolved already stays as it is
TimerFires ==
    /\ dTimer = "armed"
    /\ dTimer' = "fired"
    /\ dListener' = FALSE
    /\ IF dPc = "wait"
       THEN ReturnWorkspace(dRepositories)
       ELSE UNCHANGED <<dPc, dResult>>
    /\ UNCHANGED <<dFolderName, dGitExt, dRepositories>>
    /\ UNCHANGED <<matchVars, urlVars, pipeVars>>

DetectNext ==
    \/ CallDetectWorkspace
    \/ ActivateResolves
    \/ ActivateRejects
    \/ RepositoryOpened
    \/ TimerFires

SpecDetect == DetectInit /\ [][DetectNext]_vars

\* a timer that is armed fires: the event loop runs every due timer
SpecDetectLive == SpecDetect /\ WF_vars(TimerFires)

-----------------------------------------------------------------------------
(* Properties of the resolution pipeline *)

InFlight(r) == rPc[r] \in {"detectWorkspace", "fetchProjects", "fetchAIProjectMatch"}

\* the step in which run r ends
RunEnds(r) == InFlight(r) /\ rPc'[r] \in {"resolved", "rejected"}

\* the step in which run r ends in its catch block
RunFails(r) == RunEnds(r) /\ logLine'.kind = "error"

\* C1 as stated: when a run fails, no exception escapes and the active filter
\* has the value it had before the run.  Run 1 is the run activate starts,
\* when the filter is unset.
C1_FailedRunRestoresFilter ==
    [][RunFails(1) => (rPc'[1] = "resolved" /\ projectFilter' = Undefined)]_vars

\* C1 amended: when detectWorkspace, fetchProjects or fetchAIProjectMatch
\* fails, the run ends without an exception escaping and without itself
\* changing the active filter (which another run or a pick of the
\* filterByProject command may have changed while the run was in flight).
C1_FailedRunKeepsFilter ==
    [][\A r \in Runs :
        RunFails(r) =>
            /\ rPc'[r] = "resolved"
            /\ projectFilter' = projectFilter
            /\ treeChanges' = treeChanges
            /\ lastWrite' = lastWrite]_vars

\* a run has failed after another run set the filter, and the filter is kept
C1_Witness ==
    /\ logLine.kind = "error"
    /\ \A r \in Runs : rPc[r] = "resolved"
    /\ lastWrite.by = "run"
    /\ projectFilter # Undefined

\* C2: when the string tiers find nothing and fetchAIProjectMatch returns a
\* name that no project of the fetched list has, the filter is not set to it:
\* a run that ends by applying the AI's answer sets a candidate's name.
C2_AiNameMustBeListed ==
    [][\A r \in Runs :
        (rPc[r] = "fetchAIProjectMatch" /\ RunEnds(r) /\ lastWrite' # lastWrite)
            => (projectFilter' # Undefined
                    /\ projectFilter'[1] \in Range(rProjectNames[r]))]_vars

\* C3: nothing keeps a run from setting the filter once a run started later
\* has set it: every run that ends with a match, by the string tiers or by the
\* AI, sets the filter in that step, whatever other runs did before.
C3_EveryMatchIsApplied ==
    [][\A r \in Runs :
        (RunEnds(r) /\ logLine'.kind \in {"matched", "aiMatch"}) =>
            /\ lastWrite'.by = "run"
            /\ lastWrite'.id = r
            /\ projectFilter' = lastWrite'.value
            /\ prevWrite' = Writer(lastWrite.by, lastWrite.id)
            /\ logLine'.kind = "matched" =>
                projectFilter' = Some(matchProject(rRepoName[r][1], cachedProjects')[1].name)]_vars

\* the run started earlier set the filter after the run started later had
\* set it: the filter holds the older run's result
C3_Witness ==
    /\ lastWrite.by = "run"
    /\ prevWrite.by = "run"
    /\ lastWrite.id < prevWrite.id
    /\ projectFilter = lastWrite.value
    /\ projectFilter # Undefined

-----------------------------------------------------------------------------
(* Properties of matchProject *)

Returned == mPc = "returned"

\* the tiers, stated on the arguments
EqualsIgnoringCase(repoName, nm) == toLowerCase(nm) = toLowerCase(repoName)

PrefixRelated(repoName, nm) ==
    \/ startsWith(toLowerCase(nm), toLowerCase(repoName))
    \/ startsWith(toLowerCase(repoName), toLowerCase(nm))

SubstringRelated(repoName, nm) ==
    \/ includes(toLowerCase(nm), toLowerCase(repoName))
    \/ includes(toLowerCase(repoName), toLowerCase(nm))

ExactAt == {i \in 1..Len(mProjects) : EqualsIgnoringCase(mRepoName, mProjects[i].name)}

PrefixAt == {i \in 1..Len(mProjects) : PrefixRelated(mRepoName, mProjects[i].name)}

SubstringAt == {i \in 1..Len(mProjects) : SubstringRelated(mRepoName, mProjects[i].name)}

Min(S) == CHOOSE i \in S : \A j \in S : i <= j

ReturnsPosition(i) == mResult = Some(mProjects[i])

\* C4: matchProject returns undefined or an element of the given list.
C4_ResultIsMember ==
    Returned =>
        \/ mResult = Undefined
        \/ \E i \in 1..Len(mProjects) : ReturnsPosition(i)

C4_Witness ==
    /\ Returned
    /\ Len(mProjects) = 2
    /\ ReturnsPosition(2)
    /\ mProjects[2].name # toLowerCase(mProjects[2].name)

\* C5 as stated: whenever some project's name equals repoName ignoring case,
\* the first such project is returned.
C5_ExactWins_Original ==
    (Returned /\ ExactAt # {}) => ReturnsPosition(Min(ExactAt))

\* C5 amended: for a non-empty repoName, the first project whose name equals
\* repoName ignoring case is returned, whatever precedes it in the list.
C5_ExactWins ==
    (Returned /\ mRepoName # <<>> /\ ExactAt # {}) => ReturnsPosition(Min(ExactAt))

C5_Witness ==
    /\ Returned
    /\ ExactAt = {2}
    /\ 1 \in PrefixAt
    /\ mProjects[1].name # <<>>
    /\ ReturnsPosition(2)

\* C6 as stated: with no exact match and some prefix-related project, the first
\* prefix-related project is returned.
C6_PrefixWins_Original ==
    (Returned /\ ExactAt = {} /\ PrefixAt # {}) => ReturnsPosition(Min(PrefixAt))

\* C6 amended: for a non-empty repoName with no exact match and some
\* prefix-related project, the first prefix-related project is returned, even
\* after an earlier substring-only project.
C6_PrefixWins ==
    (Returned /\ mRepoName # <<>> /\ ExactAt = {} /\ PrefixAt # {})
        => ReturnsPosition(Min(PrefixAt))

C6_Witness ==
    /\ Returned
    /\ ExactAt = {}
    /\ PrefixAt = {2}
    /\ 1 \in SubstringAt
    /\ Len(mProjects[2].name) > Len(mRepoName)
    /\ ReturnsPosition(2)

\* C7: undefined exactly when repoName is empty, the list is empty or no name
\* is related to repoName; otherwise the first project of the highest tier
\* (exact, prefix, substring) that has a match.
C7_TieredResult ==
    Returned =>
        /\ (mResult = Undefined) <=>
                (mRepoName = <<>> \/ Len(mProjects) = 0
                    \/ (ExactAt = {} /\ PrefixAt = {} /\ SubstringAt = {}))
        /\ mResult # Undefined =>
                IF ExactAt # {} THEN ReturnsPosition(Min(ExactAt))
                ELSE IF PrefixAt # {} THEN ReturnsPosition(Min(PrefixAt))
                ELSE ReturnsPosition(Min(SubstringAt))

C7_Witness ==
    /\ Returned
    /\ Len(mProjects) = 2
    /\ ExactAt = {}
    /\ PrefixAt = {}
    /\ SubstringAt = {2}
    /\ ReturnsPosition(2)

\* C8: an empty repoName or an empty project list returns undefined.
C8_EmptyInputs ==
    (Returned /\ (mRepoName = <<>> \/ Len(mProjects) = 0)) => mResult = Undefined

C8_Witness ==
    /\ Returned
    /\ mRepoName = <<>>
    /\ Len(mProjects) > 0
    /\ mResult = Undefined

\* the position returned by a call: 0 for undefined
PositionOf(result) == IF result = Undefined THEN 0 ELSE result[1].id

LowerNames(projects) ==
    [i \in 1..Len(projects) |-> Project(projects[i].id, toLowerCase(projects[i].name))]

\* C9: the returned position does not depend on letter case: it is the
\* position returned for the lower-cased repoName and project names, which
\* every re-casing of the same arguments shares.
C9_CaseInsensitive ==
    Returned =>
        PositionOf(mResult)
            = PositionOf(matchProject(toLowerCase(mRepoName), LowerNames(mProjects)))

\* a match that exists only once letter case is ignored
C9_Witness ==
    /\ Returned
    /\ mResult # Undefined
    /\ mResult[1].name # <<>>
    /\ ~includes(mRepoName, mResult[1].name)
    /\ ~includes(mResult[1].name, mRepoName)

-----------------------------------------------------------------------------
(* Properties of extractRepoName *)

\* a final path segment without its ".git" suffix
WithoutGitSuffix(seg) ==
    IF Len(seg) >= 4 /\ <<seg[Len(seg) - 3], seg[Len(seg) - 2], seg[Len(seg) - 1], seg[Len(seg)]>> = DotGit
    THEN [i \in 1..(Len(seg) - 4) |-> seg[i]]
    ELSE seg

\* the url has the SSH or the HTTPS form and names a repository: its final
\* path segment is more than a bare ".git"
NamesRepo == uShape \in {"ssh", "https"} /\ WithoutGitSuffix(uLast) # <<>>

\* C10: for a url host:org/repo or https://host/org/repo, with or without a
\* trailing .git, extractRepoName returns the final path segment without its
\* .git suffix.
C10_RepoNameOfUrl ==
    (uPc = "returned" /\ NamesRepo) => uResult = WithoutGitSuffix(uLast)

C10_Witness ==
    /\ uPc = "returned"
    /\ uShape = "ssh"
    /\ endsWith(uUrl, DotGit)
    /\ uResult = <<"r", ".", "r">>

-----------------------------------------------------------------------------
(* Properties of detectWorkspace *)

\* the step in which the call returns
DetectReturns == dPc # "returned" /\ dPc' = "returned"

\* the call returns with no repository at hand: no git extension, a failed
\* activation, or a wait that ended with git.repositories still empty
ReturnsWithoutRepository ==
    DetectReturns /\ (dGitExt' # "active" \/ dRepositories' = <<>>)

\* the call returns with a repository at hand
ReturnsWithRepository ==
    DetectReturns /\ dGitExt' = "active" /\ dRepositories' # <<>>

\* C11: whenever detectWorkspace ends with no repository available, it returns
\* (it does not throw) repoName = folderName and branch = undefined, where
\* folderName is the name of the first workspace folder.
C11_NoRepositoryFallsBackToFolder ==
    [][ReturnsWithoutRepository =>
        /\ dResult' # Undefined
        /\ dResult'[1].repoName = dFolderName
        /\ dResult'[1].branch = Undefined
        /\ dResult'[1].folderName = dFolderName]_vars

\* activation of the git extension failed and the folder's name is the repo name
C11_Witness ==
    /\ dPc = "returned"
    /\ dGitExt = "inactive"
    /\ dFolderName # Undefined
    /\ dResult # Undefined
    /\ dResult[1].repoName = dFolderName
    /\ dResult[1].branch = Undefined

\* C12: while detectWorkspace waits for a repository, both the subscription
\* and the timer are pending, and every wait ends with the call returning:
\* if no repository is ever reported the timer ends it.
C12_WaitAlwaysEnds ==
    /\ [](dPc = "wait" => (dListener /\ dTimer = "armed"))
    /\ ((dPc = "wait") ~> (dPc = "returned"))

\* the wait was ended by the timer, with no repository reported
C12_Witness ==
    /\ dPc = "returned"
    /\ dGitExt = "active"
    /\ dTimer = "fired"
    /\ dRepositories = <<>>
    /\ dResult = NoRepository(dFolderName)

\* seg is the text after the last "/" of path
IsLastSegment(path, seg) ==
    /\ ~includes(seg, <<"/">>)
    /\ endsWith(path, <<"/">> \o seg)

\* the name of the HEAD reference of repo, undefined when there is none
BranchOf(repo) ==
    IF repo.head # Undefined /\ repo.head[1].name # Undefined
    THEN repo.head[1].name ELSE Undefined

\* C13 as stated: with a repository available, repoName is the last path
\* segment of the first repository's root path and branch the name of its HEAD.
C13_RepoNameIsLastSegment_Original ==
    [][ReturnsWithRepository =>
        /\ dResult' # Undefined
        /\ dResult'[1].repoName # Undefined
        /\ IsLastSegment(dRepositories'[1].path, dResult'[1].repoName[1])
        /\ dResult'[1].branch = BranchOf(dRepositories'[1])]_vars

\* C13: with a repository available, repoName is the last path segment of the
\* first repository's root path when that segment is not empty, and folderName
\* when it is (the path ends in "/"); branch is the name of its HEAD reference,
\* undefined when there is no HEAD; the call returns without throwing.
C13_RepoNameIsLastSegment ==
    [][ReturnsWithRepository =>
        /\ dResult' # Undefined
        /\ IF endsWith(dRepositories'[1].path, <<"/">>)
           THEN dResult'[1].repoName = dFolderName
           ELSE /\ dResult'[1].repoName # Undefined
                /\ dResult'[1].repoName[1] # <<>>
                /\ IsLastSegment(dRepositories'[1].path, dResult'[1].repoName[1])
        /\ dResult'[1].branch = BranchOf(dRepositories'[1])
        /\ dResult'[1].folderName = dFolderName]_vars

\* the first of two repositories has no HEAD and its root is two levels down
C13_Witness ==
    /\ dPc = "returned"
    /\ Len(dRepositories) = 2
    /\ dRepositories[1].path = <<"/", "w", "/", "r">>
    /\ dRepositories[1].head = Undefined
    /\ dRepositories[2].path = <<"/", "r">>
    /\ dRepositories[2].head # Undefined
    /\ dResult = Some(WorkspaceInfo(Some(<<"r">>), Undefined, dFolderName))

-----------------------------------------------------------------------------
(* Properties of the resolution pipeline: the tiers, the triggers *)

\* some project of the list is related to the run's repoName by a string tier
\* (the substring tier holds whenever the exact or the prefix tier does)
StringTierFinds(r, names) ==
    /\ Truthy(rRepoName[r])
    /\ \E i \in 1..Len(names) : SubstringRelated(rRepoName[r][1], names[i])

\* the step in which run r's await fetchProjects() resolves
FetchProjectsResolved(r) ==
    rPc[r] = "fetchProjects" /\ rPc'[r] # "fetchProjects" /\ ~RunFails(r)

\* C14: fetchAIProjectMatch is called only with repoName present, no string
\* tier match and a non-empty list of candidate names.
C14_AiCalledOnlyWithCandidates ==
    \A r \in Runs :
        rPc[r] = "fetchAIProjectMatch" =>
            /\ Truthy(rRepoName[r])
            /\ ~StringTierFinds(r, rProjectNames[r])
            /\ rProjectNames[r] # <<>>

\* C15: when the string tiers find a project in the fetched list, the run sets
\* the filter to the name of a project they relate to repoName, the change
\* event fires, and the run ends in that step without calling fetchAIProjectMatch.
C15_StringMatchEndsRun ==
    [][\A r \in Runs :
        (FetchProjectsResolved(r) /\ StringTierFinds(r, mapName(cachedProjects'))) =>
            /\ rPc'[r] = "resolved"
            /\ logLine'.kind = "matched"
            /\ projectFilter' # Undefined
            /\ projectFilter'[1] \in Range(mapName(cachedProjects'))
            /\ SubstringRelated(rRepoName[r][1], projectFilter'[1])
            /\ treeChanges' = treeChanges + 1]_vars

\* a run has ended with a string-tier match: the filter is the matched name
C15_Witness ==
    /\ rPc[1] = "resolved"
    /\ logLine.kind = "matched"
    /\ lastWrite = Write("run", 1, Some(<<"A">>))
    /\ projectFilter = Some(<<"A">>)
    /\ treeChanges = 1

\* C16: after a run in which neither the string tiers nor the AI find a
\* project, the active filter is unset.
C16_NoMatchUnsetsFilter ==
    [][\A r \in Runs :
        (RunEnds(r) /\ logLine'.kind = "noMatch") => projectFilter' = Undefined]_vars

\* the runs started so far
StartedRuns == {r \in Runs : rPc[r] # "idle"}

\* C18: one run is started at activation and one more for every
\* workspace-folders-changed event, whether or not a run is in flight.
C18_OneRunPerTrigger == Cardinality(StartedRuns) = folderEvents + 1

\* a folder change has started a second run while the first waits for the AI
C18_Witness ==
    /\ folderEvents = 1
    /\ rPc[1] = "fetchAIProjectMatch"
    /\ rPc[2] = "detectWorkspace"

-----------------------------------------------------------------------------
(* Properties of the filterByProject command *)

\* C20: picking the entry of a project (the items after the first) sets the
\* active filter to exactly that project's name, and picking the Show All
\* entry (the first item) clears it.
C20_PickSetsThatName ==
    [][\A c \in Cmds :
        /\ PickItem(c, 1) => projectFilter' = Undefined
        /\ \A i \in 2..Len(cItems[c]) :
              PickItem(c, i) => projectFilter' = Some(cItems[c][i])]_vars

-----------------------------------------------------------------------------
(* Properties of the active filter and the tree view *)

\* the step in which invocation c of filterByProject handles the user's pick
UserPicks(c) == cPc[c] = "showQuickPick" /\ cPc'[c] = "done" /\ lastWrite'.by = "cmd"

\* C17: the active filter is unset at activation, and a step changes it only
\* if it is a resolution run completing or the user's pick in filterByProject;
\* the steps of the other commands and of TicketProvider.refresh keep it.
C17_OnlyRunsAndPicksChangeFilter ==
    /\ projectFilter = Undefined
    /\ [][projectFilter' # projectFilter =>
            \/ \E r \in Runs :
                 RunEnds(r) /\ ~RunFails(r) /\ lastWrite' = Write("run", r, projectFilter')
            \/ \E c \in Cmds :
                 UserPicks(c) /\ lastWrite' = Write("cmd", c, projectFilter')]_vars

\* the change event has fired three times but the filter was set once, by the
\* run, and still has that value; a panel holds refreshAll
C17_Witness ==
    /\ lastWrite.by = "run"
    /\ prevWrite.by = "none"
    /\ projectFilter = lastWrite.value
    /\ projectFilter # Undefined
    /\ treeChanges = 3
    /\ refreshAllHeld
    /\ sPc = "idle"

\* the step in which getChildren is called
GetChildrenCalled == gPc = "idle" /\ gPc' = "fetchTickets"

\* C19: every setProjectFilter call stores its argument and fires the change
\* event, and every getChildren call passes the filter current at the call to
\* the ticket fetch.
C19_ListingUsesCurrentFilter ==
    [][/\ lastWrite' # lastWrite =>
            (projectFilter' = lastWrite'.value /\ treeChanges' = treeChanges + 1)
       /\ GetChildrenCalled => gFilter' = projectFilter]_vars

\* a listing requested after the run set the filter is fetched with that filter
C19_Witness ==
    /\ gPc = "fetchTickets"
    /\ lastWrite.by = "run"
    /\ projectFilter = lastWrite.value
    /\ projectFilter # Undefined
    /\ gFilter = projectFilter

-----------------------------------------------------------------------------
(* Properties of the wait in detectWorkspace *)

\* C21: once the wait has ended and the call returned, the repository-opened
\* subscription is disposed and the timer is no longer pending, so neither
\* callback can run after that.
C21_WaitEndDisposesBoth ==
    dPc = "returned" => (~dListener /\ dTimer # "armed")

-----------------------------------------------------------------------------
(* Properties of the filterByProject command next to the runs *)

\* the step in which invocation c of filterByProject calls fetchProjects
CmdCallsFetchProjects(c) == cPc[c] = "idle" /\ cPc'[c] = "fetchProjects"

\* C22: when the user dismisses the picker or the command's fetchProjects
\* fails, the filter is unchanged and no change event fires; the command calls
\* fetchProjects only when cachedProjects is empty.
C22_DismissAndFailureKeepFilter ==
    [][\A c \in Cmds :
        /\ (QuickPickDismissed(c) \/ CmdFetchProjectsRejects(c)) =>
              /\ projectFilter' = projectFilter
              /\ treeChanges' = treeChanges
              /\ lastWrite' = lastWrite
              /\ cPc'[c] = "done"
        /\ CmdCallsFetchProjects(c) => cachedProjects = <<>>]_vars

\* the command has ended without ever setting the filter, which a run set
C22_Witness ==
    /\ cPc[1] = "done"
    /\ lastWrite.by = "run"
    /\ prevWrite.by = "none"
    /\ projectFilter = lastWrite.value
    /\ projectFilter # Undefined
    /\ treeChanges = 1
    /\ \A r \in Runs : rPc[r] \in {"idle", "resolved"}

\* C23: the active filter is unset or the name of a project of cachedProjects.
C23_FilterNamesCachedProject ==
    projectFilter = Undefined \/ projectFilter[1] \in Range(mapName(cachedProjects))

\* C24: nothing keeps a run from replacing a filter the user set while the
\* run was in flight: a run that ends with a match right after a user's pick
\* sets the filter to its own result.
C24_RunOverwritesUserChoice ==
    [][\A r \in Runs :
        (RunEnds(r) /\ ~RunFails(r) /\ lastWrite.by = "cmd"
            /\ logLine'.kind \in {"matched", "aiMatch"}) =>
                /\ lastWrite'.by = "run"
                /\ lastWrite'.id = r
                /\ prevWrite' = Writer("cmd", lastWrite.id)
                /\ projectFilter' = lastWrite'.value
                /\ projectFilter' # Undefined]_vars

\* the run started by activate, in flight when the user picked, has replaced
\* the user's choice with its match
C24_Witness ==
    /\ lastWrite.by = "run"
    /\ lastWrite.id = 1
    /\ prevWrite = Writer("cmd", 1)
    /\ projectFilter = lastWrite.value
    /\ projectFilter = Some(<<"A">>)
    /\ logLine.kind = "matched"

-----------------------------------------------------------------------------
(* Properties of extractRepoName: every input *)

\* C29: the string extractRepoName returns holds no "/".
C29_ResultIsOneSegment ==
    uPc = "returned" => ~includes(uResult, <<"/">>)

(***************************************************************************)
(* ticketPanel.ts: the ticket detail panel.  There is one panel at a time  *)
(* (currentPanel); a panel is named by the showTicketPanel call that       *)
(* created it, and a message listener by the loadAndRender call that       *)
(* registered it.  An assignment to panel.webview.html of a closed panel   *)
(* throws and changes nothing that is shown.                               *)
(***************************************************************************)
TaskIds == {"T1", "T2"}

\* the content of panel.webview.html: what it was rendered from
Html(kind, taskId) == [kind |-> kind, taskId |-> taskId]

\* the showTicketPanel calls made so far
ShowsMade == {k \in Shows : tLoads[k].pc # "idle"}

\* the listeners that receive the messages of the panel that is open
ListenersOnPanel == {l \in tListeners : tPanel # 0 /\ tLoads[l].panel = tPanel}

panelKept == <<matchVars, urlVars, detectVars, appVars, createVars>>

\* showTicketPanel(ticket, ...), up to the await of loadAndRender
ShowTicketPanel(k, task) ==
    /\ k = Cardinality(ShowsMade) + 1
    /\ k \in Shows
    /\ tPanel' = IF tPanel # 0 THEN tPanel ELSE k
    /\ IF tMessageDisposable # 0
       THEN /\ tListeners' = tListeners \ {tMessageDisposable}
            /\ tMessageDisposable' = 0
       ELSE UNCHANGED <<tListeners, tMessageDisposable>>
    /\ tCurrentTaskId' = Some(task)
    /\ tLoads' = [tLoads EXCEPT ![k] = [pc |-> "fetch", panel |-> tPanel', taskId |-> task]]
    /\ UNCHANGED <<tDisposed, tHtml, tSavePc, tSaveCalls>>
    /\ UNCHANGED panelKept

\* the user closes the panel: the onDidDispose callback
OnDidDispose ==
    /\ tPanel # 0
    /\ tDisposed' = tDisposed \cup {tPanel}
    /\ tPanel' = 0
    /\ tCurrentTaskId' = Undefined
    /\ IF tMessageDisposable # 0
       THEN /\ tListeners' = tListeners \ {tMessageDisposable}
            /\ tMessageDisposable' = 0
       ELSE UNCHANGED <<tListeners, tMessageDisposable>>
    /\ UNCHANGED <<tHtml, tLoads, tSavePc, tSaveCalls>>
    /\ UNCHANGED panelKept

\* loadAndRender after its await, fetchTicketDetail and fetchMembers resolved
LoadAndRenderResolves(k) ==
    /\ tLoads[k].pc = "fetch"
    /\ tLoads' = [tLoads EXCEPT ![k].pc = "done"]
    /\ IF tCurrentTaskId # Some(tLoads[k].taskId) \/ tLoads[k].panel \in tDisposed
       THEN UNCHANGED <<tHtml, tListeners, tMessageDisposable>>
       ELSE /\ tHtml' = [tHtml EXCEPT ![tLoads[k].panel] = Html("ticket", tLoads[k].taskId)]
            /\ tListeners' = tListeners \cup {k}
            /\ tMessageDisposable' = k
    /\ UNCHANGED <<tPanel, tDisposed, tCurrentTaskId, tSavePc, tSaveCalls>>
    /\ UNCHANGED panelKept

\* loadAndRender after its await, one of the two fetches rejected: the catch
LoadAndRenderRejects(k) ==
    /\ tLoads[k].pc = "fetch"
    /\ tLoads' = [tLoads EXCEPT ![k].pc = "done"]
    /\ IF tLoads[k].panel \in tDisposed
       THEN UNCHANGED tHtml
       ELSE tHtml' = [tHtml EXCEPT ![tLoads[k].panel] = Html("error", tLoads[k].taskId)]
    /\ UNCHANGED <<tPanel, tDisposed, tCurrentTaskId, tMessageDisposable, tListeners,
                   tSavePc, tSaveCalls>>
    /\ UNCHANGED panelKept

\* the form of the open panel posts {type: "save"}: every listener registered
\* on the panel runs its handler up to the await of updateTicket
OnDidReceiveMessage ==
    /\ tPanel # 0
    /\ tHtml[tPanel].kind \in {"ticket", "updated"}
    /\ \A l \in ListenersOnPanel : tSavePc[l] = "idle"
    /\ tSavePc' = [l \in Shows |-> IF l \in ListenersOnPanel THEN "updateTicket" ELSE tSavePc[l]]
    /\ tSaveCalls' = Cardinality(ListenersOnPanel)
    /\ UNCHANGED <<tPanel, tDisposed, tCurrentTaskId, tMessageDisposable, tHtml,
                   tListeners, tLoads>>
    /\ UNCHANGED panelKept

\* the save handler of listener l: updateTicket resolved, fetchTicketDetail called
SaveUpdateTicketResolves(l) ==
    /\ tSavePc[l] = "updateTicket"
    /\ tSavePc' = [tSavePc EXCEPT ![l] = "fetchTicketDetail"]
    /\ UNCHANGED <<tPanel, tDisposed, tCurrentTaskId, tMessageDisposable, tHtml,
                   tListeners, tLoads, tSaveCalls>>
    /\ UNCHANGED panelKept

\* the save handler of listener l: updateTicket or fetchTicketDetail rejected,
\* the catch shows an error message
SaveRejects(l) ==
    /\ tSavePc[l] \in {"updateTicket", "fetchTicketDetail"}
    /\ tSavePc' = [tSavePc EXCEPT ![l] = "idle"]
    /\ UNCHANGED <<tPanel, tDisposed, tCurrentTaskId, tMessageDisposable, tHtml,
                   tListeners, tLoads, tSaveCalls>>
    /\ UNCHANGED panelKept

\* the save handler of listener l: fetchTicketDetail resolved
SaveFetchTicketDetailResolves(l) ==
    /\ tSavePc[l] = "fetchTicketDetail"
    /\ tSavePc' = [tSavePc EXCEPT ![l] = "idle"]
    /\ IF tCurrentTaskId = Some(tLoads[l].taskId) /\ tLoads[l].panel \notin tDisposed
       THEN tHtml' = [tHtml EXCEPT ![tLoads[l].panel] = Html("updated", tLoads[l].taskId)]
       ELSE UNCHANGED tHtml
    /\ UNCHANGED <<tPanel, tDisposed, tCurrentTaskId, tMessageDisposable,
                   tListeners, tLoads, tSaveCalls>>
    /\ UNCHANGED panelKept

PanelInit == PanelIdle /\ MatchIdle /\ UrlIdle /\ DetectIdle /\ AppIdle /\ CreateIdle

PanelNext ==
    \/ \E k \in Shows, task \in TaskIds : ShowTicketPanel(k, task)
    \/ OnDidDispose
    \/ \E k \in Shows : LoadAndRenderResolves(k)
    \/ \E k \in Shows : LoadAndRenderRejects(k)
    \/ OnDidReceiveMessage
    \/ \E l \in Shows : SaveUpdateTicketResolves(l)
    \/ \E l \in Shows : SaveRejects(l)
    \/ \E l \in Shows : SaveFetchTicketDetailResolves(l)

SpecPanel == PanelInit /\ [][PanelNext]_vars

(***************************************************************************)
(* C25, C26: the ticket detail panel                                       *)
(***************************************************************************)
\* load k, or the save of listener l, completes in this step
LoadCompletes(k) == tLoads[k].pc = "fetch" /\ tLoads'[k].pc = "done"

SaveCompletes(l) == tSavePc[l] # "idle" /\ tSavePc'[l] = "idle"

\* the ticket the load or save is for is not the current ticket
Stale(k) == tCurrentTaskId # Some(tLoads[k].taskId)

\* C25: a load or a save that completes, with success or with an error, for a
\* ticket that is no longer the current ticket leaves the content of every
\* panel as it was.
C25_StaleNeverChangesContent ==
    [][\A k \in Shows :
          ((LoadCompletes(k) \/ SaveCompletes(k)) /\ Stale(k)) => tHtml' = tHtml]_vars

\* C26: the open panel has at most one message listener registered, and a save
\* message causes at most one updateTicket call.
C26_AtMostOneListener ==
    Cardinality(ListenersOnPanel) <= 1 /\ tSaveCalls <= 1

(***************************************************************************)
(* createTicketPanel.ts: one call of showCreateTicketPanel, from the call  *)
(* to the panel being shown.                                               *)
(***************************************************************************)
\* what fetchMembers and fetchSprints resolve to
MemberLists == {<<>>, <<"m1">>}

SprintLists == {<<>>, <<"s1">>}

ListFetches == {"fetchMembers", "fetchProjects", "fetchSprints"}

\* what fetchAIProjectMatch resolves to here: as for a run, or a candidate's
\* name in other letter case
CreateAiAnswers(projectNames) ==
    AiAnswers(projectNames) \cup {Some(toLowerCase(nm)) : nm \in Range(projectNames)}

\* a bug: the name is compared without regard to letter case
findByName_IgnoresCase(projects, nm) ==
    find(projects, {i \in 1..Len(projects) : toLowerCase(projects[i].name) = toLowerCase(nm)})

\* projects.find((p) => p.name === aiMatch)
findByName(projects, nm) ==
    find(projects, {i \in 1..Len(projects) : projects[i].name = nm})

createKept == <<matchVars, urlVars, detectVars, appVars, panelVars>>

\* showCreateTicketPanel is called and awaits the three fetches
CallShowCreateTicketPanel ==
    /\ kPc = "idle"
    /\ kPc' = "fetchLists"
    /\ UNCHANGED <<kMembers, kProjects, kSprints, kRepoName, kMatched, kAiMatch, kFailed>>
    /\ UNCHANGED createKept

\* Promise.all resolved: the three lists are assigned, detectWorkspace is called
FetchListsResolve ==
    /\ kPc = "fetchLists"
    /\ \E members \in MemberLists, projects \in FetchedProjectLists, sprints \in SprintLists :
        /\ kMembers' = members
        /\ kProjects' = projects
        /\ kSprints' = sprints
    /\ kPc' = "detectWorkspace"
    /\ UNCHANGED <<kRepoName, kMatched, kAiMatch, kFailed>>
    /\ UNCHANGED createKept

\* a bug: the exception of a failed fetch leaves showCreateTicketPanel
FetchListsReject_Escapes(f) ==
    /\ kPc = "fetchLists"
    /\ kFailed' = kFailed \cup {f}
    /\ kPc' = "threw"
    /\ UNCHANGED <<kMembers, kProjects, kSprints, kRepoName, kMatched, kAiMatch>>
    /\ UNCHANGED createKept

\* Promise.all rejected because fetch f did: nothing is assigned, the empty
\* catch, detectWorkspace is called
FetchListsReject(f) ==
    /\ kPc = "fetchLists"
    /\ kFailed' = kFailed \cup {f}
    /\ kPc' = "detectWorkspace"
    /\ UNCHANGED <<kMembers, kProjects, kSprints, kRepoName, kMatched, kAiMatch>>
    /\ UNCHANGED createKept

\* detectWorkspace resolved: matchProject, then fetchAIProjectMatch is called
\* or getSession is
CreateDetectWorkspaceResolves(repoName) ==
    /\ kPc = "detectWorkspace"
    /\ kRepoName' = repoName
    /\ IF Truthy(repoName)
       THEN LET matched == matchProject(repoName[1], kProjects)
            IN  /\ kMatched' = matched
                /\ kPc' = IF matched = Undefined /\ Len(kProjects) > 0
                          THEN "fetchAIProjectMatch" ELSE "getSession"
       ELSE /\ kPc' = "getSession"
            /\ UNCHANGED kMatched
    /\ UNCHANGED <<kMembers, kProjects, kSprints, kAiMatch, kFailed>>
    /\ UNCHANGED createKept

\* detectWorkspace rejected: the empty catch, getSession is called
CreateDetectWorkspaceRejects ==
    /\ kPc = "detectWorkspace"
    /\ kFailed' = kFailed \cup {"detectWorkspace"}
    /\ kPc' = "getSession"
    /\ UNCHANGED <<kMembers, kProjects, kSprints, kRepoName, kMatched, kAiMatch>>
    /\ UNCHANGED createKept

\* fetchAIProjectMatch resolved
CreateFetchAIProjectMatchResolves(aiMatch) ==
    /\ kPc = "fetchAIProjectMatch"
    /\ aiMatch \in CreateAiAnswers(mapName(kProjects))
    /\ kAiMatch' = aiMatch
    /\ kMatched' = IF Truthy(aiMatch) THEN findByName(kProjects, aiMatch[1]) ELSE kMatched
    /\ kPc' = "getSession"
    /\ UNCHANGED <<kMembers, kProjects, kSprints, kRepoName, kFailed>>
    /\ UNCHANGED createKept

\* fetchAIProjectMatch rejected: the empty catch, getSession is called
CreateFetchAIProjectMatchRejects ==
    /\ kPc = "fetchAIProjectMatch"
    /\ kFailed' = kFailed \cup {"fetchAIProjectMatch"}
    /\ kPc' = "getSession"
    /\ UNCHANGED <<kMembers, kProjects, kSprints, kRepoName, kMatched, kAiMatch>>
    /\ UNCHANGED createKept

\* getSession resolved or rejected: the panel is created and its content set
\* from members, projects, sprints and matchedProject
GetSessionSettles ==
    /\ kPc = "getSession"
    /\ kPc' = "opened"
    /\ UNCHANGED <<kMembers, kProjects, kSprints, kRepoName, kMatched, kAiMatch, kFailed>>
    /\ UNCHANGED createKept

CreateInit == CreateIdle /\ MatchIdle /\ UrlIdle /\ DetectIdle /\ AppIdle /\ PanelIdle

\* the steps of a call that is under way
CreateSettles ==
    \/ FetchListsResolve
    \/ \E f \in ListFetches : FetchListsReject(f)
    \/ \E repoName \in WsRepoNames : CreateDetectWorkspaceResolves(repoName)
    \/ CreateDetectWorkspaceRejects
    \/ \E aiMatch \in CreateAiAnswers(mapName(kProjects)) :
           CreateFetchAIProjectMatchResolves(aiMatch)
    \/ CreateFetchAIProjectMatchRejects
    \/ GetSessionSettles

CreateNext == CallShowCreateTicketPanel \/ CreateSettles

SpecCreate == CreateInit /\ [][CreateNext]_vars

\* every promise the call awaits settles
SpecCreateLive == SpecCreate /\ WF_vars(CreateSettles)

(***************************************************************************)
(* C27, C28: showCreateTicketPanel                                         *)
(***************************************************************************)
\* C27: the pre-selected project is none or an element of the fetched project
\* list; while fetchAIProjectMatch is in flight, matchProject found nothing
\* and the list is not empty; and a project pre-selected after the AI answered
\* has exactly the name the AI returned.
C27_PreselectedIsListed ==
    /\ kMatched = Undefined \/ kMatched[1] \in Range(kProjects)
    /\ kPc = "fetchAIProjectMatch" =>
           /\ Truthy(kRepoName)
           /\ matchProject(kRepoName[1], kProjects) = Undefined
           /\ Len(kProjects) > 0
    /\ (kAiMatch # Undefined /\ kMatched # Undefined) => kMatched[1].name = kAiMatch[1]

\* the panel is open with the project the AI named pre-selected
C27_Witness ==
    /\ kPc = "opened"
    /\ kRepoName = Some(<<"c">>)
    /\ kAiMatch = Some(<<"A">>)
    /\ kMatched = Some(Project(2, <<"A">>))

\* C28: no exception leaves showCreateTicketPanel; once one of the three list
\* fetches failed all three lists are empty; once detectWorkspace or
\* fetchAIProjectMatch failed no project is pre-selected; and after any of
\* these failures the panel opens.
C28_FailuresStillOpenPanel ==
    /\ [](kPc # "threw")
    /\ []((kFailed \cap ListFetches # {}) =>
              (kMembers = <<>> /\ kProjects = <<>> /\ kSprints = <<>>))
    /\ []((kFailed \cap {"detectWorkspace", "fetchAIProjectMatch"} # {}) =>
              kMatched = Undefined)
    /\ (kFailed # {}) ~> (kPc = "opened")

\* the panel is open after fetchProjects and detectWorkspace both failed
C28_Witness ==
    /\ kPc = "opened"
    /\ kFailed = {"fetchProjects", "detectWorkspace"}
    /\ kMembers = <<>> /\ kProjects = <<>> /\ kSprints = <<>>
    /\ kMatched = Undefined

====
